---- MODULE Spec2Model ----
(***************************************************************************)
(* A model of tietang/sqlx: the wrapper family (DB, Tx, Stmt, NamedStmt,   *)
(* Rows, Row) with its safety flag, the row scanner (Select, scanAll,      *)
(* fetchRows, fetchRow, fetchResult) and the value marshaler (Map).        *)
(***************************************************************************)
EXTENDS Integers, Sequences, FiniteSets, TLC

(***************************************************************************)
(* Bounds                                                                  *)
(***************************************************************************)
MaxWrappers == 4
MaxMappers == 2
MaxRows == 2
MaxFields == 3
MaxCallers == 2
MaxSpecial == 1
MaxInsertFields == 2

(***************************************************************************)
(* Small input domains                                                     *)
(***************************************************************************)
Drivers == {"mysql"}
FoldFns == {"ToLower", "Snake"}
DefaultNameMapperSnake == "Snake"

DefaultNameMapper == "ToLower"
NoMapper == 0
Callers == 1..MaxCallers

VARIABLES
    wrappers,     \* every wrapper object created so far, in creation order
    NameMapper,   \* the package variable NameMapper (a fold function)
    origMapper,   \* the package variable origMapper
    mpr,          \* the package variable mpr (NoMapper = nil)
    mappers,      \* every reflectx.Mapper constructed so far: its fold function
    werr,         \* error returned by the last wrapper operation ("nil" = none)
    data,         \* the result set the database returns to a query
    cur,          \* the most recently opened cursor (an sqlx.Rows)
    din,          \* the destination as it was handed to the last scan operation
    dst,          \* the destination after the last scan operation
    res,          \* what the last scan operation returned ("panic" = it panicked)
    op,           \* the last scan operation
    scans,        \* the slot sequences the last scan operation passed to rows.Scan
    mItem,        \* the item handed to Map, Insert or InsertTable
    mOpts,        \* the options handed to Map
    mOut,         \* what the last call of Map returned
    ins,          \* what the last call of Insert or InsertTable did
    mprMu,        \* the mutex mprMu: the caller holding it (0 = unlocked)
    pc,           \* for every caller of mapper(): where it stands
    got,          \* for every caller: the mapper its last call of mapper() returned
    fresh,        \* for every caller: its call began after the last change of NameMapper
    builds,       \* mappers constructed by mapper() since the last change of NameMapper
    col,          \* for every caller: the column name it last derived from a field
    changed       \* NameMapper was assigned after the shared mapper was first built

gvars == <<NameMapper, origMapper, mpr, mappers>>
wvars == <<wrappers, werr>>
svars == <<data, cur, din, dst, res, op, scans>>
mvars == <<mItem, mOpts, mOut, ins>>
cvars == <<mprMu, pc, got, fresh, builds, col, changed>>
vars == <<wrappers, NameMapper, origMapper, mpr, mappers, werr, data, cur, din, dst, res, op,
          scans, mItem, mOpts, mOut, ins, mprMu, pc, got, fresh, builds, col, changed>>

(***************************************************************************)
(* mapper(): the shared mapper, built on first use and rebuilt when        *)
(* NameMapper differs from origMapper.  Returns the mapper and the new     *)
(* values of the package variables.                                        *)
(***************************************************************************)
NewMapperFunc(ms, mf) == Append(ms, mf)

\* what an operation threads through its calls: the package variables, the
\* number of objects the operation has allocated (heap), and the slot
\* sequences it has passed to rows.Scan (scans)
G == [mpr |-> mpr, orig |-> origMapper, mappers |-> mappers, heap |-> 0, scans |-> <<>>]

mapper(g) ==
    IF g.mpr = NoMapper
    THEN [m |-> Len(g.mappers) + 1,
          g |-> [g EXCEPT !.mpr = Len(g.mappers) + 1,
                          !.mappers = NewMapperFunc(g.mappers, NameMapper)]]
    ELSE IF g.orig # NameMapper
    THEN [m |-> Len(g.mappers) + 1,
          g |-> [g EXCEPT !.mpr = Len(g.mappers) + 1, !.orig = NameMapper,
                          !.mappers = NewMapperFunc(g.mappers, NameMapper)]]
    ELSE [m |-> g.mpr, g |-> g]

SetG(g) ==
    /\ mpr' = g.mpr
    /\ origMapper' = g.orig
    /\ mappers' = g.mappers

\* the number of mappers that calls of mapper() can still construct when the
\* package variables are m (mpr) and o (origMapper) and NameMapper is nm
Pending(m, o, nm) == (IF m = NoMapper THEN 1 ELSE 0) + (IF o # nm THEN 1 ELSE 0)

\* isUnsafe without the cases for Tx
isUnsafeWithoutTx(i) ==
    CASE i.kind = "Row" -> i.unsafe
      [] i.kind = "Rows" -> i.unsafe
      [] i.kind = "NamedStmt" -> i.unsafe
      [] i.kind = "Stmt" -> i.unsafe
      [] i.kind = "DB" -> i.unsafe
      [] OTHER -> FALSE

\* determine if any of our extensions are unsafe
isUnsafe(i) ==
    CASE i.kind = "Row" -> i.unsafe
      [] i.kind = "Rows" -> i.unsafe
      [] i.kind = "NamedStmt" -> i.unsafe
      [] i.kind = "Stmt" -> i.unsafe
      [] i.kind = "DB" -> i.unsafe
      [] i.kind = "Tx" -> i.unsafe
      [] OTHER -> FALSE

\* mapperFor: the Mapper of a DB or Tx; the shared mapper for anything else
mapperFor(i, g) ==
    IF i.kind \in {"DB", "Tx"}
    THEN [m |-> i.Mapper, g |-> g]
    ELSE mapper(g)

(***************************************************************************)
(* Wrapper objects.  handle identifies the wrapped database/sql object;    *)
(* parent and via record the derivation (0 / the constructor for roots).   *)
(***************************************************************************)
Wrapper(kind, handle, driverName, unsafe, Mapper, parent, via) ==
    [kind |-> kind, handle |-> handle, driverName |-> driverName,
     unsafe |-> unsafe, Mapper |-> Mapper, parent |-> parent, via |-> via]

\* a database/sql object created by the call that creates wrapper number n
FreshHandle(n) == 10 + n

HasRoom == Len(wrappers) < MaxWrappers
Ids(kind) == {i \in 1..Len(wrappers) : wrappers[i].kind = kind}
NewId == Len(wrappers) + 1

\* the operation failed in database/sql: nothing is created
Failed(e) ==
    /\ werr' = e
    /\ UNCHANGED <<wrappers, gvars, svars, mvars, cvars>>

Created(w) ==
    /\ wrappers' = Append(wrappers, w)
    /\ werr' = "nil"
    /\ UNCHANGED <<gvars, svars, mvars, cvars>>

\* an assignment to the package variable NameMapper
SetNameMapper(mf) ==
    /\ mf # NameMapper
    /\ Len(mappers) + Pending(mpr, origMapper, mf) <= MaxMappers
    /\ NameMapper' = mf
    /\ fresh' = [p \in Callers |-> FALSE]
    /\ builds' = 0
    /\ changed' = (changed \/ mpr # NoMapper)
    /\ UNCHANGED <<wrappers, origMapper, mpr, mappers, werr, svars, mvars, mprMu, pc, got, col>>

\* NewDb / Open
Open(driverName, ok) ==
    /\ HasRoom
    /\ IF ~ok
       THEN Failed("ErrOpen")
       ELSE /\ wrappers' = Append(wrappers,
                   Wrapper("DB", FreshHandle(NewId), driverName, FALSE, mapper(G).m, 0, "Open"))
            /\ SetG(mapper(G).g)
            /\ werr' = "nil"
            /\ UNCHANGED <<NameMapper, svars, mvars, cvars>>

\* DB.MapperFunc
MapperFunc(db, mf) ==
    /\ db \in Ids("DB")
    /\ Len(mappers) + 1 + Pending(mpr, origMapper, NameMapper) <= MaxMappers
    /\ mappers' = NewMapperFunc(mappers, mf)
    /\ wrappers' = [wrappers EXCEPT ![db].Mapper = Len(mappers) + 1]
    /\ werr' = "nil"
    /\ UNCHANGED <<NameMapper, origMapper, mpr, svars, mvars, cvars>>

\* DB.Unsafe setting the flag of the receiver and returning it
DBUnsafeInPlace(db) ==
    /\ db \in Ids("DB")
    /\ ~wrappers[db].unsafe
    /\ wrappers' = [wrappers EXCEPT ![db].unsafe = TRUE]
    /\ werr' = "nil"
    /\ UNCHANGED <<gvars, svars, mvars, cvars>>

\* DB.Unsafe
DBUnsafe(db) ==
    /\ HasRoom
    /\ db \in Ids("DB")
    /\ Created(Wrapper("DB", wrappers[db].handle, wrappers[db].driverName, TRUE,
                       wrappers[db].Mapper, db, "Unsafe"))

\* Tx.Unsafe
TxUnsafe(tx) ==
    /\ HasRoom
    /\ tx \in Ids("Tx")
    /\ Created(Wrapper("Tx", wrappers[tx].handle, wrappers[tx].driverName, TRUE,
                       wrappers[tx].Mapper, tx, "Unsafe"))

\* Stmt.Unsafe
StmtUnsafe(s) ==
    /\ HasRoom
    /\ s \in Ids("Stmt")
    /\ Created(Wrapper("Stmt", wrappers[s].handle, "", TRUE, wrappers[s].Mapper, s, "Unsafe"))

\* DB.Beginx
Beginx(db, ok) ==
    /\ HasRoom
    /\ db \in Ids("DB")
    /\ IF ~ok
       THEN Failed("ErrBegin")
       ELSE Created(Wrapper("Tx", FreshHandle(NewId), wrappers[db].driverName,
                            wrappers[db].unsafe, wrappers[db].Mapper, db, "Beginx"))

\* DB.Queryx
DBQueryx(db, ok) ==
    /\ HasRoom
    /\ db \in Ids("DB")
    /\ IF ~ok
       THEN Failed("ErrQuery")
       ELSE Created(Wrapper("Rows", FreshHandle(NewId), "", wrappers[db].unsafe,
                            wrappers[db].Mapper, db, "Queryx"))

\* DB.QueryRowx: the Row carries the query's error (handle 0 = no rows object)
DBQueryRowx(db, ok) ==
    /\ HasRoom
    /\ db \in Ids("DB")
    /\ Created(Wrapper("Row", IF ok THEN FreshHandle(NewId) ELSE 0, "", wrappers[db].unsafe,
                       wrappers[db].Mapper, db, "QueryRowx"))

\* Tx.Queryx
TxQueryx(tx, ok) ==
    /\ HasRoom
    /\ tx \in Ids("Tx")
    /\ IF ~ok
       THEN Failed("ErrQuery")
       ELSE Created(Wrapper("Rows", FreshHandle(NewId), "", wrappers[tx].unsafe,
                            wrappers[tx].Mapper, tx, "Queryx"))

\* Tx.QueryRowx
TxQueryRowx(tx, ok) ==
    /\ HasRoom
    /\ tx \in Ids("Tx")
    /\ Created(Wrapper("Row", IF ok THEN FreshHandle(NewId) ELSE 0, "", wrappers[tx].unsafe,
                       wrappers[tx].Mapper, tx, "QueryRowx"))

\* Preparex(p, query), reached from DB.Preparex and Tx.Preparex
Preparex(p, ok) ==
    /\ HasRoom
    /\ p \in Ids("DB") \cup Ids("Tx")
    /\ IF ~ok
       THEN Failed("ErrPrepare")
       ELSE /\ wrappers' = Append(wrappers,
                   Wrapper("Stmt", FreshHandle(NewId), "", isUnsafe(wrappers[p]),
                           mapperFor(wrappers[p], G).m, p, "Preparex"))
            /\ SetG(mapperFor(wrappers[p], G).g)
            /\ werr' = "nil"
            /\ UNCHANGED <<NameMapper, svars, mvars, cvars>>

\* Tx.Stmtx: stmt is a *Stmt (or Stmt) of this package, or (0) a *sql.Stmt
Stmtx(tx, stmt) ==
    /\ HasRoom
    /\ tx \in Ids("Tx")
    /\ stmt \in Ids("Stmt") \cup {0}
    /\ Created(Wrapper("Stmt", FreshHandle(NewId), "", FALSE, wrappers[tx].Mapper, tx, "Stmtx"))

\* Tx.NamedStmt: the NamedStmt's Stmt is tx.Stmtx(stmt.Stmt); the wrapper's
\* unsafe and Mapper are those of that Stmt
NamedStmt(tx, stmt) ==
    /\ HasRoom
    /\ tx \in Ids("Tx")
    /\ stmt \in Ids("NamedStmt")
    /\ Created(Wrapper("NamedStmt", FreshHandle(NewId), "", FALSE, wrappers[tx].Mapper,
                       tx, "NamedStmt"))

\* DB.PrepareNamed and Tx.PrepareNamed: a NamedStmt around Preparex(p, query)
PrepareNamed(p, ok) ==
    /\ HasRoom
    /\ p \in Ids("DB") \cup Ids("Tx")
    /\ IF ~ok
       THEN Failed("ErrPrepare")
       ELSE Created(Wrapper("NamedStmt", FreshHandle(NewId), "", isUnsafe(wrappers[p]),
                            wrappers[p].Mapper, p, "PrepareNamed"))

\* qStmt.Queryx (Stmt.Queryx)
StmtQueryx(s, ok) ==
    /\ HasRoom
    /\ s \in Ids("Stmt")
    /\ IF ~ok
       THEN Failed("ErrQuery")
       ELSE Created(Wrapper("Rows", FreshHandle(NewId), "", wrappers[s].unsafe,
                            wrappers[s].Mapper, s, "Queryx"))

\* qStmt.QueryRowx (Stmt.QueryRowx)
StmtQueryRowx(s, ok) ==
    /\ HasRoom
    /\ s \in Ids("Stmt")
    /\ Created(Wrapper("Row", IF ok THEN FreshHandle(NewId) ELSE 0, "", wrappers[s].unsafe,
                       wrappers[s].Mapper, s, "QueryRowx"))

NextWrappers ==
    \/ \E mf \in FoldFns : SetNameMapper(mf)
    \/ \E d \in Drivers, ok \in BOOLEAN : Open(d, ok)
    \/ \E db \in 1..Len(wrappers), mf \in FoldFns : MapperFunc(db, mf)
    \/ \E db \in 1..Len(wrappers) : DBUnsafe(db)
    \/ \E tx \in 1..Len(wrappers) : TxUnsafe(tx)
    \/ \E s \in 1..Len(wrappers) : StmtUnsafe(s)
    \/ \E db \in 1..Len(wrappers), ok \in BOOLEAN : Beginx(db, ok)
    \/ \E db \in 1..Len(wrappers), ok \in BOOLEAN : DBQueryx(db, ok)
    \/ \E db \in 1..Len(wrappers), ok \in BOOLEAN : DBQueryRowx(db, ok)
    \/ \E tx \in 1..Len(wrappers), ok \in BOOLEAN : TxQueryx(tx, ok)
    \/ \E tx \in 1..Len(wrappers), ok \in BOOLEAN : TxQueryRowx(tx, ok)
    \/ \E p \in 1..Len(wrappers), ok \in BOOLEAN : Preparex(p, ok)
    \/ \E tx \in 1..Len(wrappers), s \in 0..Len(wrappers) : Stmtx(tx, s)
    \/ \E tx \in 1..Len(wrappers), s \in 1..Len(wrappers) : NamedStmt(tx, s)
    \/ \E p \in 1..Len(wrappers), ok \in BOOLEAN : PrepareNamed(p, ok)
    \/ \E s \in 1..Len(wrappers), ok \in BOOLEAN : StmtQueryx(s, ok)
    \/ \E s \in 1..Len(wrappers), ok \in BOOLEAN : StmtQueryRowx(s, ok)

(***************************************************************************)
(* Types of destinations (reflect.Type, as far as the scanner looks)       *)
(***************************************************************************)
ElemTypes == {"Person", "*Person", "int", "*int", "map", "NullInt", "Legacy"}

\* reflect.Type.Kind
Kind(t) ==
    CASE t \in {"Person", "NullInt", "Legacy"} -> "Struct"
      [] t \in {"*Person", "*int"} -> "Ptr"
      [] t = "int" -> "Int"
      [] t = "map" -> "Map"
      [] t = "slice" -> "Slice"
      [] OTHER -> "Invalid"

\* reflect.Type.Elem of a pointer type
Elem(t) == IF t = "*Person" THEN "Person" ELSE IF t = "*int" THEN "int" ELSE t

\* reflect.PtrTo(t).Implements(_scannerInterface)
ImplementsScanner(t) == t = "NullInt"

\* reflectx.Mapper.TypeMap(t).Names: column name -> field, for the struct
\* type t (dereferenced) under fold function mf.  Person and Legacy carry
\* explicit db tags; the fields of NullInt are folded.
TypeMapNames(mf, t) ==
    CASE Elem(t) = "Person" -> [id |-> "Id", name |-> "Name"]
      [] Elem(t) = "Legacy" -> [id |-> "Id", name |-> "Name"]
      [] Elem(t) = "NullInt" -> [int64 |-> "Int64", valid |-> "Valid"]
      [] OTHER -> [n \in {} |-> ""]

\* FieldInfo.Options has "jsonb"
HasJSONBTag(t, field) == Elem(t) = "Legacy" /\ field = "Name"

StructFields(t) == {TypeMapNames("ToLower", t)[n] : n \in DOMAIN TypeMapNames("ToLower", t)}

\* isScannable: not a struct, or implements sql.Scanner, or has no exported field
isScannable(t) ==
    IF ImplementsScanner(t) THEN TRUE
    ELSE IF Kind(t) # "Struct" THEN TRUE
    ELSE IF Cardinality(DOMAIN TypeMapNames("ToLower", t)) = 0 THEN TRUE
    ELSE FALSE

(***************************************************************************)
(* Values delivered to a destination: ptr says whether the element is a    *)
(* pointer, f holds the fields (or map entries).                           *)
(***************************************************************************)
Item(ptr, f) == [ptr |-> ptr, f |-> f]
NoItem == Item(FALSE, [n \in {} |-> 0])
StaleItem == Item(FALSE, [n \in {"Id", "Name"} |-> 99])

\* reflect.Indirect
Indirect(item) == [item EXCEPT !.ptr = FALSE]

(***************************************************************************)
(* Cursors (sql.Rows): columns, the rows the driver yields, the error the  *)
(* driver reports when the rows end, the position, closed, and lasterr.    *)
(* A row is [v, bad]: v identifies its values, bad makes Scan fail on it.  *)
(***************************************************************************)
ColumnLists == {<<"id", "name">>, <<"name", "id", "extra">>, <<"id">>}

\* the rows of a result set: row k has v = k; at most one row fails to scan
RowLists ==
    {[k \in 1..n |-> k = b] : n \in 0..MaxRows, b \in 0..MaxRows}
MkRows(bads) == [k \in DOMAIN bads |-> [v |-> k, bad |-> bads[k]]]

\* the value the driver holds for column i of row r
RowVal(r, i) == 10 * r.v + i

\* what the database answers to a query: an error (NoData), or a result set
NoData == [ok |-> FALSE, columns |-> <<>>, bads |-> <<>>, termErr |-> "nil"]
Datas ==
    [ok : {TRUE}, columns : ColumnLists, bads : RowLists, termErr : {"nil", "ErrTerminal"}]
    \cup {NoData}

Cursor(unsafe, d) ==
    [exists |-> TRUE, unsafe |-> unsafe, columns |-> d.columns, rows |-> MkRows(d.bads),
     termErr |-> d.termErr, pos |-> 0, closed |-> FALSE, lasterr |-> "nil"]
NoCursor ==
    [exists |-> FALSE, unsafe |-> FALSE, columns |-> <<>>, rows |-> <<>>,
     termErr |-> "nil", pos |-> 0, closed |-> TRUE, lasterr |-> "nil"]

\* sql.Rows.Columns
Columns(c) == IF c.closed THEN [cols |-> <<>>, err |-> "ErrRowsClosed"]
              ELSE [cols |-> c.columns, err |-> "nil"]

\* sql.Rows.Next: at the end of the rows the cursor closes itself and keeps
\* the driver's error
RowsNext(c) ==
    IF c.closed THEN [ok |-> FALSE, cur |-> c]
    ELSE IF c.pos < Len(c.rows) THEN [ok |-> TRUE, cur |-> [c EXCEPT !.pos = c.pos + 1]]
    ELSE [ok |-> FALSE, cur |-> [c EXCEPT !.closed = TRUE, !.lasterr = c.termErr]]

\* sql.Rows.Err
RowsErr(c) == c.lasterr

\* sql.Rows.Close
RowsCloseOf(c) == [c EXCEPT !.closed = TRUE]

\* sql.Rows.Scan: the error of scanning the current row
ScanErr(c) ==
    IF c.closed THEN "ErrRowsClosed"
    ELSE IF c.pos = 0 THEN "ErrScanWithoutNext"
    ELSE IF c.rows[c.pos].bad THEN "ErrScan"
    ELSE "nil"

(***************************************************************************)
(* Destinations: shape is "Nil" (untyped nil), "Value" (not a pointer),    *)
(* "NilPtr" or "Ptr"; slice: the pointee (or the value) is a slice;        *)
(* elemT: the slice's element type, or the pointee type; val: contents     *)
(* (the elements of a slice; at most one element for a single value).      *)
(***************************************************************************)
Dest(shape, slice, elemT, val) == [shape |-> shape, slice |-> slice, elemT |-> elemT, val |-> val]
NoDest == Dest("Nil", FALSE, "int", <<>>)

Dests ==
    {NoDest, Dest("NilPtr", FALSE, "Person", <<>>)}
    \cup {Dest("Value", FALSE, t, <<>>) : t \in {"Person", "map"}}
    \cup {Dest("Value", TRUE, "Person", <<>>)}
    \cup {Dest("Ptr", TRUE, t, <<>>) : t \in ElemTypes}
    \cup {Dest("Ptr", FALSE, t, <<>>) : t \in {"Person", "*Person", "int", "map"}}
    \cup {Dest("Ptr", s, "Person", <<StaleItem>>) : s \in BOOLEAN}

\* the type the destination pointer points to
PointeeT(d) == IF d.slice THEN "slice" ELSE d.elemT

\* reflect.Value.Kind of reflect.ValueOf(dest)
DestKind(d) ==
    CASE d.shape = "Nil" -> "Invalid"
      [] d.shape \in {"NilPtr", "Ptr"} -> "Ptr"
      [] OTHER -> Kind(PointeeT(d))

\* reflect.Value.IsNil panics unless the kind is chan, func, map, pointer,
\* interface or slice
IsNilPanics(d) == DestKind(d) \notin {"Ptr", "Map", "Slice"}
IsNil(d) == d.shape = "NilPtr"

\* reflect.Value.Elem panics unless the kind is interface or pointer; the
\* result is the kind of the element
ElemKindPanics(k) == k \notin {"Ptr", "Interface"}

\* reset leaving the destination as it is
resetKeeping(d) == d

\* reset: an empty slice for a slice, the zero value otherwise
reset(d) == [d EXCEPT !.val = <<>>]

(***************************************************************************)
(* fetchResult: one row into a fresh item of type itemT                    *)
(***************************************************************************)
Discard == "_"

\* the slot of every column: the field the column resolves to, or a fresh
\* discard slot
Slots(columns, fieldMap) ==
    [i \in 1..Len(columns) |->
        IF columns[i] \in DOMAIN fieldMap THEN fieldMap[columns[i]] ELSE Discard]

\* rows.Scan(values...): slot i receives column i, in column order
Scanned(c, slots, names) ==
    [n \in names |->
        LET hits == {i \in 1..Len(slots) : slots[i] = n}
        IN IF hits = {} THEN 0
           ELSE RowVal(c.rows[c.pos], CHOOSE i \in hits : \A j \in hits : j <= i)]

\* reflect.New handing out the object it handed out first
reflectNewReused(g) == 1

\* reflect.New(objT) and new(interface{}): an object no one else holds
reflectNew(g) == g.heap + 1

\* the addresses handed to rows.Scan: the field of the target obj for a
\* column with a field, a newly allocated interface{} for any other column
Addrs(slots, obj, g) ==
    [i \in 1..Len(slots) |->
        IF slots[i] = Discard
        THEN [obj |-> reflectNew([g EXCEPT !.heap =
                         obj + Cardinality({j \in 1..(i - 1) : slots[j] = Discard})]),
              field |-> Discard]
        ELSE [obj |-> obj, field |-> slots[i]]]

\* the operation's state after fetchResult allocated the target and the
\* discard slots and called rows.Scan(values...)
AfterScan(g, obj, addrs) ==
    [g EXCEPT !.heap = obj + Cardinality({i \in 1..Len(addrs) : addrs[i].field = Discard}),
              !.scans = Append(g.scans, [obj |-> obj, slots |-> addrs])]

fetchResult(c, g, itemT) ==
    LET objT == IF Kind(itemT) = "Ptr" THEN Elem(itemT) ELSE itemT
    IN
    IF Kind(itemT) \notin {"Map", "Struct", "Ptr"}
    THEN [item |-> NoItem, err |-> "ErrExpectingMapOrStruct", g |-> g]
    ELSE IF Kind(itemT) = "Ptr" /\ Kind(objT) # "Struct"
    THEN [item |-> NoItem, err |-> "ErrExpectingMapOrStruct", g |-> g]
    ELSE IF Kind(objT) = "Struct"
    THEN LET obj == reflectNew(g)
             mp == mapper(g)
             fieldMap == TypeMapNames(mp.g.mappers[mp.m], itemT)
             slots == Slots(c.columns, fieldMap)
             zero == Item(TRUE, [n \in StructFields(objT) |-> 0])
             after == AfterScan(mp.g, obj, Addrs(slots, obj, mp.g))
         IN IF \E i \in 1..Len(slots) : slots[i] # Discard /\ HasJSONBTag(objT, slots[i])
            THEN [item |-> zero, err |-> "errDeprecatedJSONBTag",
                  g |-> [mp.g EXCEPT !.heap = obj]]
            ELSE IF ScanErr(c) # "nil"
            THEN [item |-> zero, err |-> ScanErr(c), g |-> after]
            ELSE [item |-> Item(TRUE, Scanned(c, slots, StructFields(objT))),
                  err |-> "nil", g |-> after]
    ELSE \* a map: one entry per column
         IF Columns(c).err # "nil"
         THEN [item |-> NoItem, err |-> Columns(c).err, g |-> g]
         ELSE IF ScanErr(c) # "nil"
         THEN [item |-> NoItem, err |-> ScanErr(c), g |-> g]
         ELSE [item |-> Item(FALSE, Scanned(c, c.columns, {c.columns[i] : i \in 1..Len(c.columns)})),
               err |-> "nil", g |-> g]

(***************************************************************************)
(* fetchRows: every row of the cursor into the slice dst points to.  The   *)
(* cursor is closed when fetchRows leaves (defer rows.Close()).            *)
(***************************************************************************)
RECURSIVE fetchRowsLoop(_, _, _, _)
fetchRowsLoop(c, g, itemT, slicev) ==
    LET n == RowsNext(c)
        r == fetchResult(n.cur, g, itemT)
    IN IF ~n.ok
       THEN [err |-> "nil", cur |-> n.cur, g |-> g, slicev |-> slicev, ended |-> TRUE]
       ELSE IF r.err # "nil"
       THEN [err |-> r.err, cur |-> n.cur, g |-> r.g, slicev |-> slicev, ended |-> FALSE]
       ELSE fetchRowsLoop(n.cur, r.g, itemT,
                Append(slicev, IF Kind(itemT) = "Ptr" THEN r.item ELSE Indirect(r.item)))

Outcome(r, c, d, g) == [res |-> r, cur |-> c, dst |-> d, g |-> g]

fetchRows(c, g, d) ==
    IF IsNilPanics(d) THEN Outcome("panic", RowsCloseOf(c), d, g)
    ELSE IF IsNil(d) \/ DestKind(d) # "Ptr"
    THEN Outcome("ErrExpectingPointer", RowsCloseOf(c), d, g)
    ELSE IF Kind(PointeeT(d)) # "Slice"
    THEN Outcome("ErrExpectingSlicePointer", RowsCloseOf(c), d, g)
    ELSE IF Columns(c).err # "nil"
    THEN Outcome(Columns(c).err, RowsCloseOf(c), d, g)
    ELSE LET l == fetchRowsLoop(c, g, d.elemT, reset(d).val)
         IN IF l.err # "nil"
            THEN Outcome(l.err, RowsCloseOf(l.cur), reset(d), l.g)
            ELSE Outcome(RowsErr(l.cur), RowsCloseOf(l.cur), [d EXCEPT !.val = l.slicev], l.g)

\* fetchRow returning the no-rows error without asking rows.Err()
fetchRowWithoutErr(c, g, d) ==
    IF IsNilPanics(d) THEN Outcome("panic", c, d, g)
    ELSE IF IsNil(d) \/ DestKind(d) # "Ptr"
    THEN Outcome("ErrExpectingPointer", c, d, g)
    ELSE IF Columns(c).err # "nil"
    THEN Outcome(Columns(c).err, c, d, g)
    ELSE LET n == RowsNext(c)
             r == fetchResult(n.cur, g, PointeeT(d))
         IN IF ~n.ok
            THEN Outcome("ErrNoMoreRows", n.cur, reset(d), g)
            ELSE IF r.err # "nil"
            THEN Outcome(r.err, n.cur, reset(d), r.g)
            ELSE Outcome("nil", n.cur,
                     [d EXCEPT !.val = <<IF Kind(PointeeT(d)) = "Ptr" THEN r.item
                                         ELSE Indirect(r.item)>>], r.g)

(***************************************************************************)
(* fetchRow: the next row of the cursor into the value dst points to       *)
(***************************************************************************)
fetchRow(c, g, d) ==
    IF IsNilPanics(d) THEN Outcome("panic", c, d, g)
    ELSE IF IsNil(d) \/ DestKind(d) # "Ptr"
    THEN Outcome("ErrExpectingPointer", c, d, g)
    ELSE IF Columns(c).err # "nil"
    THEN Outcome(Columns(c).err, c, d, g)
    ELSE LET n == RowsNext(c)
             r == fetchResult(n.cur, g, PointeeT(d))
         IN IF ~n.ok
            THEN IF RowsErr(n.cur) # "nil"
                 THEN Outcome(RowsErr(n.cur), n.cur, reset(d), g)
                 ELSE Outcome("ErrNoMoreRows", n.cur, reset(d), g)
            ELSE IF r.err # "nil"
            THEN Outcome(r.err, n.cur, reset(d), r.g)
            ELSE Outcome("nil", n.cur,
                     [d EXCEPT !.val = <<IF Kind(PointeeT(d)) = "Ptr" THEN r.item
                                         ELSE Indirect(r.item)>>], r.g)

(***************************************************************************)
(* scanAll: v is the zero reflect.Value when v.Elem() is evaluated         *)
(***************************************************************************)
ZeroValueKind == "Invalid"

scanAll(c, g, d) ==
    IF DestKind(d) # "Ptr" THEN Outcome("ErrMustPassPointer", c, d, g)
    ELSE IF IsNil(d) THEN Outcome("ErrNilPointer", c, d, g)
    ELSE IF ElemKindPanics(ZeroValueKind) THEN Outcome("panic", c, d, g)
    ELSE IF Kind(PointeeT(d)) \in {"Slice", "Map"} THEN fetchRows(c, g, d)
    ELSE fetchRow(c, g, d)

(***************************************************************************)
(* Select: query, then scanAll; the cursor is closed when Select leaves    *)
(* (defer rows.Close()), also when scanAll panics.                         *)
(***************************************************************************)
\* Select without the deferred rows.Close()
SelectWithoutClose(c) == c

SelectClose(c) == RowsCloseOf(c)

Select(unsafe, d, g, dat) ==
    IF ~dat.ok THEN Outcome("ErrQuery", NoCursor, d, g)
    ELSE LET o == scanAll(Cursor(unsafe, dat), g, d)
         IN Outcome(o.res, SelectClose(o.cur), o.dst, o.g)

(***************************************************************************)
(* The scanner's operations as actions                                     *)
(***************************************************************************)
Apply(o, d, name) ==
    /\ res' = o.res
    /\ cur' = o.cur
    /\ din' = d
    /\ dst' = o.dst
    /\ op' = name
    /\ scans' = o.g.scans
    /\ SetG(o.g)
    /\ UNCHANGED <<data, NameMapper, wvars, mvars, cvars>>

\* Queryx on a wrapper whose flag is unsafe: a cursor over the data
OpenCursor(unsafe) ==
    /\ IF data.ok
       THEN /\ cur' = Cursor(unsafe, data)
            /\ res' = "nil"
       ELSE /\ cur' = NoCursor
            /\ res' = "ErrQuery"
    /\ op' = "Queryx"
    /\ UNCHANGED <<data, din, dst, scans, gvars, wvars, mvars, cvars>>

DoSelect(unsafe, d) == Apply(Select(unsafe, d, G, data), d, "Select")

DoScanAll(d) ==
    /\ cur.exists
    /\ Apply(scanAll(cur, G, d), d, "scanAll")

DoFetchRows(d) ==
    /\ cur.exists
    /\ Apply(fetchRows(cur, G, d), d, "fetchRows")

DoFetchRow(d) ==
    /\ cur.exists
    /\ Apply(fetchRow(cur, G, d), d, "fetchRow")

\* Rows.Close by the caller
DoClose ==
    /\ cur.exists
    /\ ~cur.closed
    /\ cur' = RowsCloseOf(cur)
    /\ op' = "Close"
    /\ res' = "nil"
    /\ UNCHANGED <<data, din, dst, scans, gvars, wvars, mvars, cvars>>

NextScan ==
    \/ \E u \in BOOLEAN : OpenCursor(u)
    \/ \E u \in BOOLEAN, d \in Dests : DoSelect(u, d)
    \/ \E d \in Dests : DoScanAll(d)
    \/ \E d \in Dests : DoFetchRows(d)
    \/ \E d \in Dests : DoFetchRow(d)
    \/ DoClose

(***************************************************************************)
(* What the documentation expects of a scan, stated independently of the   *)
(* scanner's code                                                          *)
(***************************************************************************)
\* reflectx.Deref
Deref(t) == IF Kind(t) = "Ptr" THEN Elem(t) ELSE t

PlainStructs == {"Person", "*Person"}

\* the columns of a result that have no field in t
Unmapped(columns, t) ==
    {i \in 1..Len(columns) : columns[i] \notin DOMAIN TypeMapNames("ToLower", t)}

\* row as a value of t: every field holds the value of the column named after it
ExpectedItem(columns, row, t) ==
    Item(Kind(t) = "Ptr",
         [f \in StructFields(t) |->
            LET hits == {i \in 1..Len(columns) \ Unmapped(columns, t) :
                            TypeMapNames("ToLower", t)[columns[i]] = f}
            IN IF hits = {} THEN 0
               ELSE RowVal(row, CHOOSE i \in hits : \A j \in hits : j <= i)])

ExpectedRows(c, t) == [k \in 1..Len(c.rows) |-> ExpectedItem(c.columns, c.rows[k], t)]

NoBadRows(c) == \A k \in 1..Len(c.rows) : ~c.rows[k].bad

\* the destination is a pointer to a slice of (pointers to) a plain struct
StructSliceDest(d) == d.shape = "Ptr" /\ d.slice /\ d.elemT \in PlainStructs

(***************************************************************************)
(* C1: Select/scanAll into a struct destination, with a result column that *)
(* has no destination field: when the cursor's unsafe flag is unset the    *)
(* operation returns the missing-destination-name error and delivers no    *)
(* row; when it is set the operation succeeds with the mapped fields       *)
(* populated.                                                              *)
(***************************************************************************)
C1_MissingFieldPolicy ==
    (/\ op \in {"Select", "scanAll"}
     /\ cur.exists
     /\ StructSliceDest(dst)
     /\ Unmapped(cur.columns, dst.elemT) # {})
    => IF ~cur.unsafe
       THEN /\ res = "ErrMissingDestName"
            /\ \A k \in 1..Len(dst.val) : dst.val[k] = StaleItem
       ELSE (op = "Select" /\ NoBadRows(cur) /\ cur.termErr = "nil")
            => (res = "nil" /\ dst.val = ExpectedRows(cur, dst.elemT))

(***************************************************************************)
(* C2: a Tx from DB.Beginx, a Stmt from Preparex on a DB or Tx, and the    *)
(* Rows/Row from Queryx/QueryRowx on a DB, Tx or Stmt carry the unsafe     *)
(* flag of the wrapper they were derived from.                             *)
(***************************************************************************)
C2_ChildrenInheritFlag ==
    \A i \in 1..Len(wrappers) :
        wrappers[i].via \in {"Beginx", "Preparex", "Queryx", "QueryRowx"}
        => /\ wrappers[i].parent \in 1..(i - 1)
           /\ wrappers[i].unsafe = wrappers[wrappers[i].parent].unsafe

\* a cursor opened from a statement prepared on an unsafe DB: all three unsafe
C2_Witness ==
    \E i \in 1..Len(wrappers) :
        /\ wrappers[i].via \in {"Queryx", "QueryRowx"}
        /\ wrappers[i].unsafe
        /\ wrappers[wrappers[i].parent].kind = "Stmt"
        /\ wrappers[wrappers[i].parent].via = "Preparex"
        /\ wrappers[wrappers[wrappers[i].parent].parent].unsafe

(***************************************************************************)
(* C3: a Stmt from Tx.Stmtx, and a NamedStmt from Tx.NamedStmt, carries    *)
(* the unsafe flag of the transaction.                                     *)
(***************************************************************************)
C3_StmtxInheritsFlag ==
    \A i \in 1..Len(wrappers) :
        wrappers[i].via \in {"Stmtx", "NamedStmt"}
        => wrappers[i].unsafe = wrappers[wrappers[i].parent].unsafe

(***************************************************************************)
(* C4: Unsafe() on a DB, Tx or Stmt creates a new wrapper of the same kind *)
(* with the flag set and the original's handle, driver name and Mapper; it *)
(* leaves every existing wrapper as it was; and no step changes the flag   *)
(* of an existing wrapper.                                                 *)
(***************************************************************************)
C4_UnsafeIsACopy ==
    [][/\ Len(wrappers') >= Len(wrappers)
       /\ \A i \in 1..Len(wrappers) : wrappers'[i].unsafe = wrappers[i].unsafe
       /\ (Len(wrappers') = Len(wrappers) + 1 /\ wrappers'[Len(wrappers')].via = "Unsafe")
          => LET n == wrappers'[Len(wrappers')]
                 p == n.parent
             IN /\ p \in 1..Len(wrappers)
                /\ n.unsafe
                /\ n.kind = wrappers[p].kind
                /\ n.handle = wrappers[p].handle
                /\ n.driverName = wrappers[p].driverName
                /\ n.Mapper = wrappers[p].Mapper
                /\ \A i \in 1..Len(wrappers) : wrappers'[i] = wrappers[i]]_vars

\* unsafe copies of a safe DB and of a safe Tx, next to their originals
C4_Witness ==
    \E i, j \in 1..Len(wrappers) :
        /\ wrappers[i].via = "Unsafe" /\ wrappers[i].kind = "DB"
        /\ ~wrappers[wrappers[i].parent].unsafe
        /\ wrappers[j].via = "Unsafe" /\ wrappers[j].kind = "Tx"
        /\ ~wrappers[wrappers[j].parent].unsafe
        /\ wrappers[j].handle = wrappers[wrappers[j].parent].handle

(***************************************************************************)
(* C5: when fetchRow asks the cursor for a row and gets none, it returns   *)
(* the no-rows error if the cursor has no terminal error, and the cursor's *)
(* terminal error otherwise (never a scan failure).                        *)
(***************************************************************************)
\* fetchRow got past its checks (a non-nil pointer, Columns succeeded) and
\* rows.Next() returned false: only then is the cursor closed afterwards
FetchRowSawNoRow ==
    /\ op = "fetchRow"
    /\ dst.shape = "Ptr"
    /\ res # "ErrRowsClosed"
    /\ cur.closed

C5_NoRows ==
    FetchRowSawNoRow
    => /\ RowsErr(cur) = "nil" => res = "ErrNoMoreRows"
       /\ RowsErr(cur) # "nil" => res = RowsErr(cur)
       /\ res \notin {"ErrScan", "nil"}

C5_Witness ==
    /\ FetchRowSawNoRow
    /\ res = "ErrNoMoreRows"
    /\ cur.rows = <<>>

(***************************************************************************)
(* C6: when Select leaves, the cursor it opened is closed, whatever the    *)
(* way out; when the query fails there is no cursor.  The cursor handed to *)
(* fetchRows is closed when fetchRows leaves.                              *)
(***************************************************************************)
C6_SelectClosesCursor ==
    /\ op = "Select" => IF data.ok THEN cur.exists /\ cur.closed
                        ELSE ~cur.exists /\ res = "ErrQuery"
    /\ op = "fetchRows" => cur.closed

C6_Witness ==
    /\ op = "Select"
    /\ cur.exists
    /\ cur.closed
    /\ Len(cur.rows) > 0
    /\ res # "nil"

(***************************************************************************)
(* C7: scanning into a slice of a directly scannable type from a result    *)
(* with more than one column returns the column-count error and appends    *)
(* nothing.                                                                *)
(***************************************************************************)
C7_ColumnCountMismatch ==
    (/\ op \in {"Select", "scanAll"}
     /\ cur.exists
     /\ dst.shape = "Ptr"
     /\ dst.slice
     /\ isScannable(Deref(dst.elemT))
     /\ Len(cur.columns) > 1)
    => (res = "ErrColumnCount" /\ dst.val = <<>>)

(***************************************************************************)
(* C8: a Select into a pointer to a slice of structs, over a result whose  *)
(* columns all have fields and whose rows all scan, succeeds and leaves    *)
(* one element per row, in cursor order, element k holding row k's values  *)
(* in the fields named by the columns; the elements are pointers exactly   *)
(* when the element type is a pointer.                                     *)
(***************************************************************************)
C8_SelectDeliversRows ==
    (/\ op = "Select"
     /\ cur.exists
     /\ StructSliceDest(dst)
     /\ Unmapped(cur.columns, dst.elemT) = {}
     /\ NoBadRows(cur)
     /\ cur.termErr = "nil")
    => (/\ res = "nil"
        /\ dst.val = ExpectedRows(cur, dst.elemT)
        /\ \A k \in 1..Len(dst.val) : dst.val[k].ptr = (Kind(dst.elemT) = "Ptr"))

(***************************************************************************)
(* C9: scanAll and fetchRows, on a cursor whose rows end with a terminal   *)
(* error, return that error; they return nil only when every row was       *)
(* scanned and the cursor has no terminal error.                           *)
(***************************************************************************)
C9_TerminalErrorReturned ==
    /\ (/\ op \in {"Select", "fetchRows"}
        /\ cur.exists
        /\ StructSliceDest(dst)
        /\ NoBadRows(cur)
        /\ res # "ErrRowsClosed"
        /\ cur.termErr # "nil")
       => res = cur.termErr
    /\ (op \in {"Select", "scanAll", "fetchRows"} /\ cur.exists /\ res = "nil")
       => (cur.pos = Len(cur.rows) /\ cur.termErr = "nil")

(***************************************************************************)
(* fetchRows, called on a fresh cursor with a pointer to a slice of        *)
(* structs: it delivers the rows as C8 describes and returns the terminal  *)
(* error as C9 describes.                                                  *)
(***************************************************************************)
FetchRowsDelivers ==
    (/\ op = "fetchRows"
     /\ StructSliceDest(dst)
     /\ res = "nil")
    => /\ cur.pos = Len(cur.rows)
       /\ cur.termErr = "nil"
       /\ Len(dst.val) <= Len(cur.rows)
       /\ \A k \in 1..Len(dst.val) :
            dst.val[k] = ExpectedRows(cur, dst.elemT)[Len(cur.rows) - Len(dst.val) + k]

FetchRowsPropagates ==
    (/\ op = "fetchRows"
     /\ StructSliceDest(dst)
     /\ res # "ErrRowsClosed"
     /\ RowsErr(cur) # "nil")
    => res = RowsErr(cur)

(***************************************************************************)
(* The value marshaler: Map                                                *)
(***************************************************************************)
\* column names: the db tags of the marshaled struct type, in byte order
AllNames == <<"a", "b", "c", "d">>
Names == {AllNames[i] : i \in 1..MaxFields}

\* byte order of the strings that occur as column names
NameRank(s) ==
    CASE s = "1" -> 1
      [] s = "a" -> 2
      [] s = "b" -> 3
      [] s = "c" -> 4
      [] s = "d" -> 5
      [] OTHER -> 0

\* values of fields and of map entries, by what Map looks at: a nil pointer
\* ("nilhook": of a type with a MarshalDB hook), a plain value (raw 0 is the
\* zero value of its type), a value with a MarshalDB hook that succeeds or
\* fails, a value with an IsZero method answering true ("iszeroT") or false
\* ("iszeroF"), or a slice of raw elements
NilPtrVal == [k |-> "nilptr", raw |-> 0, fail |-> FALSE]
NilHookPtr == [k |-> "nilhook", raw |-> 0, fail |-> TRUE]
PlainVal(n) == [k |-> "plain", raw |-> n, fail |-> FALSE]
HookVal(n, fail) == [k |-> "hook", raw |-> n, fail |-> fail]
IsZeroerVal(n, zero) == [k |-> IF zero THEN "iszeroT" ELSE "iszeroF", raw |-> n, fail |-> FALSE]
SliceVal(n) == [k |-> "slice", raw |-> n, fail |-> FALSE]
EntryVals == {PlainVal(0), PlainVal(5), HookVal(7, FALSE), HookVal(7, TRUE)}
BaseVals == {NilPtrVal, PlainVal(0), PlainVal(5)}
SpecialVals ==
    {HookVal(7, FALSE), HookVal(7, TRUE), HookVal(0, FALSE), HookVal(0, TRUE), NilHookPtr,
     IsZeroerVal(5, TRUE), IsZeroerVal(0, FALSE), SliceVal(0), SliceVal(2)}
FieldVals == BaseVals \cup SpecialVals

\* values handed to the driver
EmptyString == [k |-> "string", raw |-> 0, fail |-> FALSE]
NullValue == [k |-> "null", raw |-> 0, fail |-> FALSE]
Marshaled(v) == [k |-> "marshaled", raw |-> v.raw, fail |-> FALSE]

\* a struct value: for every column name of its type, the omitempty tag and
\* the field's value; at most MaxSpecial fields hold a value of SpecialVals
StructValues ==
    {c \in UNION {[ns -> [omit : BOOLEAN, v : FieldVals]] : ns \in SUBSET Names} :
        Cardinality({n \in DOMAIN c : c[n].v \in SpecialVals}) <= MaxSpecial}

\* keys of a map[interface{}]interface{}: fmt's %v prints key.s
MapKeys == {[t |-> "string", s |-> "a"], [t |-> "string", s |-> "b"],
            [t |-> "string", s |-> "1"], [t |-> "int", s |-> "1"]}
MapValues == UNION {[ks -> EntryVals] : ks \in SUBSET MapKeys}

\* fmt.Sprintf("%v", key)
FormatKey(key) == key.s

\* the items handed to Map: shape as for scan destinations, "PtrPtr" a
\* pointer to a pointer; base the kind below the pointers
MapItem(shape, base, content) == [shape |-> shape, base |-> base, content |-> content]
NoContent == [n \in {} |-> 0]
MapItems ==
    {MapItem("Nil", "prim", NoContent), MapItem("NilPtr", "struct", NoContent),
     MapItem("Val", "prim", NoContent), MapItem("Ptr", "prim", NoContent),
     MapItem("PtrPtr", "struct", NoContent), MapItem("PtrPtr", "map", NoContent)}
    \cup {MapItem(sh, "struct", c) : sh \in {"Val", "Ptr"}, c \in StructValues}
    \cup {MapItem(sh, "map", c) : sh \in {"Val", "Ptr"}, c \in MapValues}

\* *MapOptions: isnil marks the nil pointer
NilMapOptions == [isnil |-> TRUE, IncludeZeroed |-> FALSE, IncludeNil |-> FALSE]
MapOptionsSet ==
    [isnil : {FALSE}, IncludeZeroed : BOOLEAN, IncludeNil : BOOLEAN] \cup {NilMapOptions}
defaultMapOptions == [isnil |-> FALSE, IncludeZeroed |-> FALSE, IncludeNil |-> FALSE]

\* reflect.Type.Name of the marshaled struct type; map types are unnamed
StructTypeName == <<"O", "r", "d", "e", "r", "I", "t", "e", "m">>

Uppers == <<"A", "B", "C", "D", "E", "F", "G", "H", "I", "J", "K", "L", "M",
            "N", "O", "P", "Q", "R", "S", "T", "U", "V", "W", "X", "Y", "Z">>
Lowers == <<"a", "b", "c", "d", "e", "f", "g", "h", "i", "j", "k", "l", "m",
            "n", "o", "p", "q", "r", "s", "t", "u", "v", "w", "x", "y", "z">>
IsUpperChr(chr) == \E i \in 1..26 : Uppers[i] = chr
ToLowerChr(chr) == IF IsUpperChr(chr) THEN Lowers[CHOOSE i \in 1..26 : Uppers[i] = chr] ELSE chr

\* snakeCasedName over a name given as its characters
RECURSIVE snakeFrom(_, _)
snakeFrom(name, idx) ==
    IF idx > Len(name) THEN <<>>
    ELSE (IF IsUpperChr(name[idx]) /\ idx > 1 THEN <<"_">> ELSE <<>>)
         \o <<ToLowerChr(name[idx])>> \o snakeFrom(name, idx + 1)

snakeCasedName(name) == snakeFrom(name, 1)

\* v.(db.Marshaler)
IsMarshaler(v) == v.k \in {"hook", "nilhook"}

\* marshal keeping the value when MarshalDB fails
marshalDroppingError(v) ==
    IF IsMarshaler(v)
    THEN IF v.fail THEN [v |-> v, err |-> "nil", called |-> TRUE]
         ELSE [v |-> Marshaled(v), err |-> "nil", called |-> TRUE]
    ELSE [v |-> v, err |-> "nil", called |-> FALSE]

\* marshal: the MarshalDB hook of the value, if it has one; called says
\* whether MarshalDB ran
marshal(v) ==
    IF IsMarshaler(v)
    THEN IF v.fail THEN [v |-> NullValue, err |-> "ErrMarshalDB", called |-> TRUE]
         ELSE [v |-> Marshaled(v), err |-> "nil", called |-> TRUE]
    ELSE [v |-> v, err |-> "nil", called |-> FALSE]

\* fld.Kind() == reflect.Ptr && fld.IsNil()
IsNilPtrField(v) == v.k \in {"nilptr", "nilhook"}

\* the zero check of Map: the IsZero method if the value has one, else zero
\* length for an array or slice, else deep equality with the type's zero value
IsZeroVal(v) ==
    IF v.k \in {"iszeroT", "iszeroF"} THEN v.k = "iszeroT"
    ELSE IF v.k = "slice" THEN v.raw = 0
    ELSE v.raw = 0

\* fieldValue and its sort.Interface
FieldValue(fields, values) == [fields |-> fields, values |-> values]

FvLen(fv) == Len(fv.fields)

\* Swap exchanging the names only
FvSwapFieldsOnly(fv, i, j) ==
    [fields |-> [fv.fields EXCEPT ![i] = fv.fields[j], ![j] = fv.fields[i]],
     values |-> fv.values]

FvSwap(fv, i, j) ==
    [fields |-> [fv.fields EXCEPT ![i] = fv.fields[j], ![j] = fv.fields[i]],
     values |-> [fv.values EXCEPT ![i] = fv.values[j], ![j] = fv.values[i]]]

FvLess(fv, i, j) == NameRank(fv.fields[i]) < NameRank(fv.fields[j])

\* sort.Sort on a short sequence: insertion sort through Less and Swap
RECURSIVE sortInner(_, _)
sortInner(fv, j) ==
    IF j > 1 /\ FvLess(fv, j, j - 1) THEN sortInner(FvSwap(fv, j, j - 1), j - 1) ELSE fv

RECURSIVE sortOuter(_, _)
sortOuter(fv, i) == IF i > FvLen(fv) THEN fv ELSE sortOuter(sortInner(fv, i), i + 1)

SortFv(fv) == sortOuter(fv, 2)

\* what Map returns; hooks (not a return value) is the set of fields and keys
\* whose MarshalDB ran during the call
MapResult(name, fv, err, isnil) ==
    [name |-> name, fields |-> fv.fields, values |-> fv.values, err |-> err, isnil |-> isnil,
     hooks |-> {}]
MapError(err) == MapResult(<<>>, FieldValue(<<>>, <<>>), err, TRUE)

\* the state of Map's loops: the pairs built so far, the error that ended
\* the loop, and the fields whose MarshalDB ran
Acc(fv, err, hooks) == [fv |-> fv, err |-> err, hooks |-> hooks]
Emit(acc, name, v) ==
    [acc EXCEPT !.fv = FieldValue(Append(acc.fv.fields, name), Append(acc.fv.values, v))]

\* the nil-pointer branch deciding by IncludeZeroed
mapNilFieldByZeroed(name, tagOmitEmpty, options, acc) ==
    IF tagOmitEmpty /\ ~options.IncludeZeroed THEN acc
    ELSE Emit(acc, name, IF tagOmitEmpty THEN EmptyString ELSE NullValue)

\* a field that is a nil pointer
mapNilField(name, tagOmitEmpty, options, acc) ==
    IF tagOmitEmpty /\ ~options.IncludeNil THEN acc
    ELSE Emit(acc, name, IF tagOmitEmpty THEN EmptyString ELSE NullValue)

\* the value branch emitting the marshaled value of a zero field
mapValueFieldNoPlaceholder(name, tagOmitEmpty, value, options, acc) ==
    LET isZero == IsZeroVal(value)
        m == marshal(value)
    IN IF isZero /\ tagOmitEmpty /\ ~options.IncludeZeroed THEN acc
       ELSE IF m.err # "nil"
       THEN [acc EXCEPT !.err = m.err, !.hooks = acc.hooks \cup {name}]
       ELSE [Emit(acc, name, m.v)
                EXCEPT !.hooks = IF m.called THEN acc.hooks \cup {name} ELSE acc.hooks]

\* a field that is not a nil pointer
mapValueField(name, tagOmitEmpty, value, options, acc) ==
    LET isZero == IsZeroVal(value)
        m == marshal(value)
    IN IF isZero /\ tagOmitEmpty /\ ~options.IncludeZeroed THEN acc
       ELSE IF m.err # "nil"
       THEN [acc EXCEPT !.err = m.err, !.hooks = acc.hooks \cup {name}]
       ELSE [Emit(acc, name, IF isZero /\ tagOmitEmpty THEN EmptyString ELSE m.v)
                EXCEPT !.hooks = IF m.called THEN acc.hooks \cup {name} ELSE acc.hooks]

\* the loop over the struct's fields, visited in the order of the sequence order
RECURSIVE mapStructLoop(_, _, _, _, _)
mapStructLoop(content, options, order, idx, acc) ==
    IF idx > Len(order) \/ acc.err # "nil" THEN acc
    ELSE LET name == order[idx]
             tagOmitEmpty == content[name].omit
             value == content[name].v
         IN mapStructLoop(content, options, order, idx + 1,
                IF IsNilPtrField(value) THEN mapNilField(name, tagOmitEmpty, options, acc)
                ELSE mapValueField(name, tagOmitEmpty, value, options, acc))

\* the loop over the map's keys, visited in the order of the sequence mkeys
RECURSIVE mapMapLoop(_, _, _, _)
mapMapLoop(content, mkeys, idx, acc) ==
    IF idx > Len(mkeys) \/ acc.err # "nil" THEN acc
    ELSE LET m == marshal(content[mkeys[idx]])
         IN mapMapLoop(content, mkeys, idx + 1,
                IF m.err # "nil"
                THEN [acc EXCEPT !.err = m.err, !.hooks = acc.hooks \cup {mkeys[idx]}]
                ELSE [Emit(acc, FormatKey(mkeys[idx]), m.v)
                         EXCEPT !.hooks = IF m.called THEN acc.hooks \cup {mkeys[idx]}
                                          ELSE acc.hooks])

\* the orders in which a Go map with key set S can be visited
Orders(S) == {o \in [1..Cardinality(S) -> S] : \A x \in S : \E i \in DOMAIN o : o[i] = x}

\* the kind of the item when every pointer is followed
itemKindDerefAll(item) ==
    CASE item.base = "struct" -> "Struct"
      [] item.base = "map" -> "Map"
      [] OTHER -> "Int"

\* itemT.Kind() after the single dereference of a pointer item
itemKind(item) ==
    IF item.shape = "PtrPtr" THEN "Ptr"
    ELSE CASE item.base = "struct" -> "Struct"
           [] item.base = "map" -> "Map"
           [] OTHER -> "Int"

\* Map(item, options), visiting the fields or keys in order
Map(item, options, order) ==
    LET opts == IF options.isnil THEN defaultMapOptions ELSE options
        empty == Acc(FieldValue(<<>>, <<>>), "nil", {})
    IN IF item.shape = "Nil" THEN MapError("ErrInvalid")
       ELSE IF item.shape = "NilPtr" THEN MapError("panic")
       ELSE IF itemKind(item) = "Struct"
       THEN LET l == mapStructLoop(item.content, opts, order, 1, empty)
            IN IF l.err # "nil" THEN [MapError(l.err) EXCEPT !.hooks = l.hooks]
               ELSE [MapResult(snakeCasedName(StructTypeName), SortFv(l.fv), "nil", FALSE)
                        EXCEPT !.hooks = l.hooks]
       ELSE IF itemKind(item) = "Map"
       THEN LET l == mapMapLoop(item.content, order, 1, empty)
            IN IF l.err # "nil" THEN [MapError(l.err) EXCEPT !.hooks = l.hooks]
               ELSE [MapResult(snakeCasedName(<<>>), SortFv(l.fv), "nil", FALSE)
                        EXCEPT !.hooks = l.hooks]
       ELSE MapError("ErrExpectingPointerToEitherMapOrStruct")

\* Map reaches mapper() exactly when it marshals a struct
MapCallsMapper(item) == item.shape \in {"Val", "Ptr"} /\ item.base = "struct"

NoOut == [name |-> <<>>, fields |-> <<>>, values |-> <<>>, err |-> "none", isnil |-> TRUE,
          hooks |-> {}]

\* a call of Map on the item, visiting its fields or keys in some order
DoMap(order) ==
    /\ order \in Orders(DOMAIN mItem.content)
    /\ mOut' = Map(mItem, mOpts, order)
    /\ IF MapCallsMapper(mItem) THEN SetG(mapper(G).g)
       ELSE UNCHANGED <<mpr, origMapper, mappers>>
    /\ UNCHANGED <<mItem, mOpts, ins, NameMapper, wvars, svars, cvars>>

NextMap == \E order \in Orders(DOMAIN mItem.content) : DoMap(order)

(***************************************************************************)
(* DB.Insert and DB.InsertTable: Map, then insertTable, which runs the     *)
(* statement through MustExec.  execOk says whether the executor accepts   *)
(* the statement.                                                          *)
(***************************************************************************)
TableNames == {<<"t">>}

InsertResult(method, query, err) == [op |-> method, query |-> query, err |-> err]
NoQuery == [table |-> <<>>, names |-> <<>>, placeholders |-> 0, args |-> <<>>]
NoInsert == InsertResult("none", NoQuery, "nil")

\* MustExec: panics with the executor's error
MustExec(query, execOk) == IF execOk THEN "nil" ELSE "panic"

\* insertTable: placeholders[:len(placeholders)-1] is out of range when there
\* is no column
insertTable(method, tableName, columnNames, columnValues, execOk) ==
    LET placeholders == 2 * Len(columnNames)
    IN IF placeholders - 1 < 0 THEN InsertResult(method, NoQuery, "panic")
       ELSE LET query == [table |-> tableName, names |-> columnNames,
                          placeholders |-> Len(columnNames), args |-> columnValues]
            IN InsertResult(method, query, MustExec(query, execOk))

Insert(dest, order, execOk) ==
    LET m == Map(dest, NilMapOptions, order)
    IN IF m.err = "panic" THEN InsertResult("Insert", NoQuery, "panic")
       ELSE IF m.err # "nil" THEN InsertResult("Insert", NoQuery, m.err)
       ELSE insertTable("Insert", m.name, m.fields, m.values, execOk)

InsertTable(tableName, dest, order, execOk) ==
    LET m == Map(dest, NilMapOptions, order)
    IN IF m.err = "panic" THEN InsertResult("InsertTable", NoQuery, "panic")
       ELSE IF m.err # "nil" THEN InsertResult("InsertTable", NoQuery, m.err)
       ELSE insertTable("InsertTable", tableName, m.fields, m.values, execOk)

\* the items of the insert specification: structs and maps of at most
\* MaxInsertFields entries
InsertNames == {AllNames[i] : i \in 1..MaxInsertFields}
InsertKeys == {[t |-> "string", s |-> AllNames[i]] : i \in 1..MaxInsertFields}
InsertItems ==
    {MapItem("Nil", "prim", NoContent), MapItem("NilPtr", "struct", NoContent),
     MapItem("NilPtr", "map", NoContent), MapItem("Val", "prim", NoContent),
     MapItem("PtrPtr", "struct", NoContent)}
    \cup {MapItem(sh, "struct", c) :
             sh \in {"Val", "Ptr"},
             c \in UNION {[ns -> [omit : BOOLEAN, v : BaseVals \cup {HookVal(7, TRUE)}]] :
                             ns \in SUBSET InsertNames}}
    \cup {MapItem(sh, "map", c) :
             sh \in {"Val", "Ptr"},
             c \in UNION {[ks -> {PlainVal(5), HookVal(7, TRUE)}] : ks \in SUBSET InsertKeys}}

DoInsert(order, execOk) ==
    /\ order \in Orders(DOMAIN mItem.content)
    /\ ins' = Insert(mItem, order, execOk)
    /\ IF MapCallsMapper(mItem) THEN SetG(mapper(G).g)
       ELSE UNCHANGED <<mpr, origMapper, mappers>>
    /\ UNCHANGED <<mItem, mOpts, mOut, NameMapper, wvars, svars, cvars>>

DoInsertTable(tableName, order, execOk) ==
    /\ order \in Orders(DOMAIN mItem.content)
    /\ ins' = InsertTable(tableName, mItem, order, execOk)
    /\ IF MapCallsMapper(mItem) THEN SetG(mapper(G).g)
       ELSE UNCHANGED <<mpr, origMapper, mappers>>
    /\ UNCHANGED <<mItem, mOpts, mOut, NameMapper, wvars, svars, cvars>>

NextInsert ==
    \/ \E order \in Orders(DOMAIN mItem.content) : DoMap(order)
    \/ \E order \in Orders(DOMAIN mItem.content), execOk \in BOOLEAN : DoInsert(order, execOk)
    \/ \E tableName \in TableNames, order \in Orders(DOMAIN mItem.content), execOk \in BOOLEAN :
          DoInsertTable(tableName, order, execOk)

(***************************************************************************)
(* mapper() step by step, called by several goroutines.  The body runs     *)
(* under mprMu; NameMapper is a plain package variable that the            *)
(* application assigns without the mutex, so every read of it is a step.   *)
(***************************************************************************)
\* strings.ToLower over a name given as its characters
ToLower(name) == [i \in 1..Len(name) |-> ToLowerChr(name[i])]

\* the fold function mf applied to a name; "Snake" stands for a function the
\* application supplies, folding like snakeCasedName
ApplyFold(mf, name) == IF mf = "ToLower" THEN ToLower(name) ELSE snakeCasedName(name)

\* identifiers of struct fields without a db tag
FieldIdents == {<<"U", "s", "e", "r", "I", "d">>, <<"N", "a", "m", "e">>, <<"I", "D">>}

\* the column name a mapper with fold function mf derives for an untagged field
ColumnName(mf, ident) == ApplyFold(mf, ident)

NoCol == [ident |-> <<>>, fn |-> "none", name |-> <<>>]

\* mprMu.Lock()
MapperLock(p) ==
    /\ pc[p] = "idle"
    /\ mprMu = 0
    /\ mprMu' = p
    /\ pc' = [pc EXCEPT ![p] = "locked"]
    /\ got' = [got EXCEPT ![p] = NoMapper]
    /\ fresh' = [fresh EXCEPT ![p] = TRUE]
    /\ UNCHANGED <<gvars, wvars, svars, mvars, builds, col, changed>>

\* if mpr == nil ... else if origMapper != reflect.ValueOf(NameMapper)
MapperCheck(p) ==
    /\ pc[p] = "locked"
    /\ pc' = [pc EXCEPT ![p] = IF mpr = NoMapper THEN "build"
                                ELSE IF origMapper # NameMapper THEN "rebuild"
                                ELSE "unlock"]
    /\ UNCHANGED <<gvars, wvars, svars, mvars, mprMu, got, fresh, builds, col, changed>>

\* mpr = reflectx.NewMapperFunc("db", NameMapper)
MapperBuild(p) ==
    /\ pc[p] \in {"build", "rebuild"}
    /\ Len(mappers) < MaxMappers
    /\ mappers' = NewMapperFunc(mappers, NameMapper)
    /\ mpr' = Len(mappers) + 1
    /\ builds' = builds + 1
    /\ pc' = [pc EXCEPT ![p] = IF pc[p] = "build" THEN "unlock" ELSE "store"]
    /\ UNCHANGED <<NameMapper, origMapper, wvars, svars, mvars, mprMu, got, fresh, col, changed>>

\* origMapper = reflect.ValueOf(NameMapper)
MapperStore(p) ==
    /\ pc[p] = "store"
    /\ origMapper' = NameMapper
    /\ pc' = [pc EXCEPT ![p] = "unlock"]
    /\ UNCHANGED <<NameMapper, mpr, mappers, wvars, svars, mvars, mprMu, got, fresh, builds,
                   col, changed>>

\* return mpr, and the deferred mprMu.Unlock()
MapperReturn(p) ==
    /\ pc[p] = "unlock"
    /\ got' = [got EXCEPT ![p] = mpr]
    /\ mprMu' = 0
    /\ pc' = [pc EXCEPT ![p] = "typemap"]
    /\ UNCHANGED <<gvars, wvars, svars, mvars, fresh, builds, col, changed>>

\* the caller resolves a column name with the mapper it received:
\* mapper().TypeMap(itemT) in Map and in fetchResult
TypeMap(p, ident) ==
    /\ pc[p] = "typemap"
    /\ col' = [col EXCEPT ![p] = [ident |-> ident, fn |-> mappers[got[p]],
                                  name |-> ColumnName(mappers[got[p]], ident)]]
    /\ pc' = [pc EXCEPT ![p] = "idle"]
    /\ UNCHANGED <<gvars, wvars, svars, mvars, mprMu, got, fresh, builds, changed>>

NextMapper ==
    \/ \E mf \in FoldFns : SetNameMapper(mf)
    \/ \E p \in Callers : MapperLock(p)
    \/ \E p \in Callers : MapperCheck(p)
    \/ \E p \in Callers : MapperBuild(p)
    \/ \E p \in Callers : MapperStore(p)
    \/ \E p \in Callers : MapperReturn(p)
    \/ \E p \in Callers, ident \in FieldIdents : TypeMap(p, ident)

(***************************************************************************)
(* What the documentation expects Map to emit, stated independently of     *)
(* Map's code                                                              *)
(***************************************************************************)
EffectiveOptions(o) == IF o.isnil THEN defaultMapOptions ELSE o

\* the field holds a nil pointer
NilField(f) == f.v.k \in {"nilptr", "nilhook"}

\* the documented zero test: the value's own IsZero if it has one, else an
\* empty array or slice, else equality with the zero value of the type
ZeroByDoc(v) ==
    CASE v.k = "iszeroT" -> TRUE
      [] v.k = "iszeroF" -> FALSE
      [] v.k = "slice" -> v.raw = 0
      [] OTHER -> v.raw = 0

\* the field is left out
Omitted(f, o) ==
    f.omit /\ IF NilField(f) THEN ~o.IncludeNil
              ELSE ZeroByDoc(f.v) /\ ~o.IncludeZeroed

\* the value of a field or entry after its serialization hook
HookedValue(v) == IF v.k = "hook" THEN Marshaled(v) ELSE v

\* the value emitted for a field that is not left out
ExpectedValue(f) ==
    IF NilField(f) THEN (IF f.omit THEN EmptyString ELSE NullValue)
    ELSE IF f.omit /\ ZeroByDoc(f.v) THEN EmptyString
    ELSE HookedValue(f.v)

\* the entries Map emits, as <<source, column name, value>>
Emitted(item, o) ==
    IF item.base = "struct"
    THEN {<<n, n, ExpectedValue(item.content[n])>> :
             n \in {m \in DOMAIN item.content : ~Omitted(item.content[m], EffectiveOptions(o))}}
    ELSE {<<key, FormatKey(key), ExpectedValue([omit |-> FALSE, v |-> item.content[key]])>> :
             key \in DOMAIN item.content}

UniqueNames(es) == \A e1, e2 \in es : e1[2] = e2[2] => e1 = e2

(***************************************************************************)
(* C10: after a successful Map the column names are in non-decreasing      *)
(* order, there are as many values as names, every value stands at the     *)
(* index of the name it was emitted with, and when the names are unique    *)
(* the result is the one sorted listing of the emitted entries.            *)
(***************************************************************************)
C10_SortedAndAligned ==
    mOut.err = "nil"
    => LET es == Emitted(mItem, mOpts)
           n == Len(mOut.fields)
       IN /\ \A i \in 1..(n - 1) : NameRank(mOut.fields[i]) <= NameRank(mOut.fields[i + 1])
          /\ Len(mOut.values) = n
          /\ Cardinality(es) = n
          /\ \E p \in Orders(es) :
                \A i \in 1..n : mOut.fields[i] = p[i][2] /\ mOut.values[i] = p[i][3]
          /\ UniqueNames(es)
             => \A i \in 1..n :
                   \E e \in es :
                      /\ mOut.fields[i] = e[2]
                      /\ mOut.values[i] = e[3]
                      /\ Cardinality({d \in es : NameRank(d[2]) < NameRank(e[2])}) = i - 1

\* three columns were emitted, and the first and the last carry different values
C10_Witness ==
    /\ mOut.err = "nil"
    /\ mItem.base = "struct"
    /\ Len(mOut.fields) = 3
    /\ mOut.values[1] # mOut.values[3]
    /\ mOut.values[1] # mOut.values[2]

(***************************************************************************)
(* Helpers of the claims about single fields                               *)
(***************************************************************************)
\* Map was called on a struct or a map, directly or through one pointer
MappedStruct == mOut.err # "none" /\ mItem.shape \in {"Val", "Ptr"} /\ mItem.base = "struct"
MappedMap == mOut.err # "none" /\ mItem.shape \in {"Val", "Ptr"} /\ mItem.base = "map"

\* column n is absent from the result / present with value v
Absent(n) == \A i \in 1..Len(mOut.fields) : mOut.fields[i] # n
Present(n, v) ==
    \E i \in 1..Len(mOut.fields) :
        i <= Len(mOut.values) /\ mOut.fields[i] = n /\ mOut.values[i] = v

(***************************************************************************)
(* C11: after a successful Map of a struct, a field that is not a nil      *)
(* pointer, is tagged omitempty and holds a zero value (by its IsZero      *)
(* method, else zero length, else equality with the zero value) is absent  *)
(* when IncludeZeroed is false and present with the empty string when      *)
(* IncludeZeroed is true; every other field that is not a nil pointer is   *)
(* present with its marshaled value.                                       *)
(***************************************************************************)
C11_OmissionLaw ==
    (MappedStruct /\ mOut.err = "nil")
    => \A n \in DOMAIN mItem.content :
          LET f == mItem.content[n]
              o == EffectiveOptions(mOpts)
          IN ~NilField(f)
             => IF f.omit /\ ZeroByDoc(f.v)
                THEN IF o.IncludeZeroed THEN Present(n, EmptyString) ELSE Absent(n)
                ELSE Present(n, HookedValue(f.v))

\* a field whose IsZero method answers true although it holds 5 was emitted
\* as the empty string, and another field with its own value
C11_Witness ==
    /\ MappedStruct
    /\ mOut.err = "nil"
    /\ EffectiveOptions(mOpts).IncludeZeroed
    /\ \E n, m \in DOMAIN mItem.content :
          /\ mItem.content[n] = [omit |-> TRUE, v |-> IsZeroerVal(5, TRUE)]
          /\ Present(n, EmptyString)
          /\ mItem.content[m] = [omit |-> TRUE, v |-> PlainVal(5)]
          /\ Present(m, PlainVal(5))

(***************************************************************************)
(* C12: for a struct field holding a nil pointer, Map never runs a         *)
(* serialization hook, and after a successful Map the column is absent     *)
(* exactly when the field is tagged omitempty and IncludeNil is false;     *)
(* otherwise it is present with the empty string if tagged omitempty and   *)
(* with nil if not.  IncludeZeroed does not enter.                         *)
(***************************************************************************)
C12_NilPointerFields ==
    MappedStruct
    => \A n \in DOMAIN mItem.content :
          LET f == mItem.content[n]
              o == EffectiveOptions(mOpts)
          IN NilField(f)
             => /\ n \notin mOut.hooks
                /\ mOut.err = "nil"
                   => IF f.omit /\ ~o.IncludeNil THEN Absent(n)
                      ELSE Present(n, IF f.omit THEN EmptyString ELSE NullValue)

\* IncludeZeroed is set and IncludeNil is not: a tagged nil pointer was left
\* out, and an untagged nil pointer of a type with a hook was emitted as nil
C12_Witness ==
    /\ MappedStruct
    /\ mOut.err = "nil"
    /\ EffectiveOptions(mOpts).IncludeZeroed
    /\ ~EffectiveOptions(mOpts).IncludeNil
    /\ \E n, m \in DOMAIN mItem.content :
          /\ mItem.content[n] = [omit |-> TRUE, v |-> NilPtrVal]
          /\ Absent(n)
          /\ mItem.content[m] = [omit |-> FALSE, v |-> NilHookPtr]
          /\ Present(m, NullValue)

(***************************************************************************)
(* C13: Map fails with the hook's error, an empty name and nil names and   *)
(* values, exactly when the MarshalDB hook fails on a map value or on a    *)
(* struct field that is neither left out nor a nil pointer.                *)
(***************************************************************************)
\* the fields and keys whose hook fails when it runs
FailingHooks ==
    IF mItem.base = "struct"
    THEN {n \in DOMAIN mItem.content :
             LET f == mItem.content[n]
             IN /\ ~Omitted(f, EffectiveOptions(mOpts))
                /\ ~NilField(f)
                /\ f.v.k = "hook"
                /\ f.v.fail}
    ELSE {key \in DOMAIN mItem.content :
             mItem.content[key].k = "hook" /\ mItem.content[key].fail}

C13_HookFailureAborts ==
    (MappedStruct \/ MappedMap)
    => /\ FailingHooks # {}
          => /\ mOut.err = "ErrMarshalDB"
             /\ mOut.name = <<>>
             /\ mOut.fields = <<>>
             /\ mOut.values = <<>>
             /\ mOut.isnil
       /\ mOut.err = "ErrMarshalDB" => FailingHooks # {}

\* Map failed on a struct of three fields: one hook fails, one field is emitted
\* and one tagged zero field is left out
C13_Witness ==
    /\ MappedStruct
    /\ mOut.err = "ErrMarshalDB"
    /\ mOut.fields = <<>>
    /\ Cardinality(DOMAIN mItem.content) = 3
    /\ \E n, m \in DOMAIN mItem.content :
          /\ mItem.content[n] = [omit |-> FALSE, v |-> PlainVal(5)]
          /\ mItem.content[m] = [omit |-> TRUE, v |-> PlainVal(0)]

C15_NeverPanics == mOut.err # "panic" /\ ins.err # "panic"

(***************************************************************************)
(* Helpers of the claims about the shared mapper                           *)
(***************************************************************************)
\* caller p holds the result of a call of mapper() that began after the last
\* assignment to NameMapper
Returned(p) == fresh[p] /\ pc[p] \in {"typemap", "idle"} /\ got[p] # NoMapper

(***************************************************************************)
(* C16: once NameMapper has been assigned after the shared mapper was      *)
(* first built, every operation that calls mapper() after the assignment   *)
(* resolves its column names with a mapper built under the function        *)
(* NameMapper now holds.                                                   *)
(***************************************************************************)
C16_RebuiltAfterChange ==
    \A p \in Callers :
        (changed /\ fresh[p] /\ pc[p] = "typemap") => mappers[got[p]] = NameMapper

(***************************************************************************)
(* C17: between two assignments to NameMapper (and before the first and    *)
(* after the last) mapper() constructs at most one mapper, and all calls   *)
(* of mapper() that began in that period return the same mapper.           *)
(***************************************************************************)
C17_OneMapperPerPeriod ==
    /\ builds <= 1
    /\ \A p, q \in Callers : (Returned(p) /\ Returned(q)) => got[p] = got[q]

\* what holds of mapper(): while NameMapper keeps its initial value the shared
\* mapper is built once and every call returns it
MapperBuiltOnceByDefault ==
    (NameMapper = DefaultNameMapper /\ ~changed /\ builds > 0)
    => /\ builds = 1
       /\ \A p, q \in Callers : (Returned(p) /\ Returned(q)) => got[p] = got[q]

(***************************************************************************)
(* C18 as stated: a mapper built under the default NameMapper derives for  *)
(* an untagged field the snake_case fold of its identifier.                *)
(***************************************************************************)
C18_DefaultFoldIsSnakeCase ==
    \A p \in Callers :
        col[p].fn = DefaultNameMapper => col[p].name = snakeCasedName(col[p].ident)

(***************************************************************************)
(* C18 as amended: a mapper built under the default NameMapper derives for *)
(* an untagged field its identifier with every letter lowercased and       *)
(* nothing inserted.                                                       *)
(***************************************************************************)
C18_DefaultFoldIsLowerCase ==
    \A p \in Callers :
        col[p].fn = DefaultNameMapper
        => /\ Len(col[p].name) = Len(col[p].ident)
           /\ \A i \in 1..Len(col[p].ident) :
                 /\ ~IsUpperChr(col[p].name[i])
                 /\ \/ col[p].name[i] = col[p].ident[i]
                    \/ \E k \in 1..26 : Uppers[k] = col[p].ident[i] /\ Lowers[k] = col[p].name[i]

\* NameMapper was never assigned and a caller derived the column of UserId
C18_Witness ==
    /\ ~changed
    /\ NameMapper = DefaultNameMapper
    /\ \E p \in Callers :
          /\ col[p].fn = DefaultNameMapper
          /\ col[p].ident = <<"U", "s", "e", "r", "I", "d">>
          /\ col[p].name = <<"u", "s", "e", "r", "i", "d">>

(***************************************************************************)
(* Helpers of the claims about the slots handed to rows.Scan               *)
(***************************************************************************)
\* every address handed to rows.Scan by the operation, as <<row, column>>
SlotIds == {<<k, i>> : k \in 1..Len(scans), i \in 1..Len(cur.columns)}

\* the object slot id points into
SlotObj(id) == scans[id[1]].slots[id[2]].obj

\* the field of the scanned type that column i resolves to, or Discard
FieldOfColumn(i) ==
    LET fieldMap == TypeMapNames(NameMapper, din.elemT)
    IN IF cur.columns[i] \in DOMAIN fieldMap THEN fieldMap[cur.columns[i]] ELSE Discard

(***************************************************************************)
(* C19: for every row scanned into a struct, rows.Scan receives one slot   *)
(* per result column, in the order of the columns: slot i is the field of  *)
(* the row's own target that column i resolves to, or, when the column has *)
(* no field, a discard slot that nothing else refers to; the target of a   *)
(* row is an object no earlier row used, so no slot points into an earlier *)
(* row.                                                                    *)
(***************************************************************************)
C19_OneSlotPerColumn ==
    \A k \in 1..Len(scans) :
        /\ Len(scans[k].slots) = Len(cur.columns)
        /\ \A i \in 1..Len(cur.columns) :
              /\ scans[k].slots[i].field = FieldOfColumn(i)
              /\ IF FieldOfColumn(i) # Discard
                 THEN scans[k].slots[i].obj = scans[k].obj
                 ELSE /\ \A id \in SlotIds : id # <<k, i>> => SlotObj(id) # SlotObj(<<k, i>>)
                      /\ \A j \in 1..Len(scans) : scans[j].obj # SlotObj(<<k, i>>)
        /\ \A j \in 1..(k - 1) :
              /\ scans[j].obj # scans[k].obj
              /\ \A i \in 1..Len(cur.columns) : scans[k].slots[i].obj # scans[j].obj

\* fetchRows scanned two rows of the columns name, id, extra into a slice of
\* structs whose fields are declared as Id, Name
C19_Witness ==
    /\ op = "fetchRows"
    /\ res = "nil"
    /\ din.elemT \in PlainStructs
    /\ cur.columns = <<"name", "id", "extra">>
    /\ Len(scans) = 2
    /\ Len(dst.val) = 2
    /\ scans[2].slots[1] = [obj |-> scans[2].obj, field |-> "Name"]
    /\ scans[2].slots[3].field = Discard

(***************************************************************************)
(* Helpers of the claims about what fetchRows leaves in the destination    *)
(***************************************************************************)
\* fetchRows got past its checks of the destination and of rows.Columns()
FetchRowsStarted ==
    /\ op = "fetchRows"
    /\ din.shape = "Ptr"
    /\ din.slice
    /\ res \notin {"panic", "ErrExpectingPointer", "ErrExpectingSlicePointer", "ErrRowsClosed"}

\* the errors of a row: rows.Scan failed, or fetchResult rejected the element
RowErrors == {"ErrScan", "errDeprecatedJSONBTag", "ErrExpectingMapOrStruct"}

(***************************************************************************)
(* C20: once fetchRows starts reading, nothing the destination slice held  *)
(* before the call is left in it; and when a row fails to scan or the      *)
(* element type is rejected, fetchRows returns that error with the         *)
(* destination slice empty, whatever number of rows was read before.       *)
(***************************************************************************)
C20_ResetBeforeReading ==
    FetchRowsStarted
    => /\ \A i \in 1..Len(dst.val) : dst.val[i] \notin {din.val[j] : j \in 1..Len(din.val)}
       /\ res \in RowErrors => dst.val = <<>>

\* the second row failed to scan after the first was read, into a slice that
\* held an element before the call
C20_Witness ==
    /\ FetchRowsStarted
    /\ din.val = <<StaleItem>>
    /\ res = "ErrScan"
    /\ cur.pos = 2
    /\ Len(scans) = 2
    /\ dst.val = <<>>

(***************************************************************************)
(* Specifications: the wrapper family, the scanner over one result set,    *)
(* and the marshaler over one item                                         *)
(***************************************************************************)
Init ==
    /\ wrappers = <<>>
    /\ NameMapper = DefaultNameMapper
    /\ origMapper = DefaultNameMapper
    /\ mpr = NoMapper
    /\ mappers = <<>>
    /\ werr = "nil"
    /\ data = NoData
    /\ cur = NoCursor
    /\ din = NoDest
    /\ dst = NoDest
    /\ res = "nil"
    /\ op = "none"
    /\ scans = <<>>
    /\ mItem = MapItem("Nil", "prim", NoContent)
    /\ mOpts = NilMapOptions
    /\ mOut = NoOut
    /\ ins = NoInsert
    /\ mprMu = 0
    /\ pc = [p \in Callers |-> "idle"]
    /\ got = [p \in Callers |-> NoMapper]
    /\ fresh = [p \in Callers |-> FALSE]
    /\ builds = 0
    /\ col = [p \in Callers |-> NoCol]
    /\ changed = FALSE

SpecWrappers == Init /\ [][NextWrappers]_vars

SpecMapper == Init /\ [][NextMapper]_vars

InitScan ==
    /\ wrappers = <<>>
    /\ NameMapper = DefaultNameMapper
    /\ origMapper = DefaultNameMapper
    /\ mpr = NoMapper
    /\ mappers = <<>>
    /\ werr = "nil"
    /\ data \in Datas
    /\ cur = NoCursor
    /\ din = NoDest
    /\ dst = NoDest
    /\ res = "nil"
    /\ op = "none"
    /\ scans = <<>>
    /\ mItem = MapItem("Nil", "prim", NoContent)
    /\ mOpts = NilMapOptions
    /\ mOut = NoOut
    /\ ins = NoInsert
    /\ mprMu = 0
    /\ pc = [p \in Callers |-> "idle"]
    /\ got = [p \in Callers |-> NoMapper]
    /\ fresh = [p \in Callers |-> FALSE]
    /\ builds = 0
    /\ col = [p \in Callers |-> NoCol]
    /\ changed = FALSE

SpecScan == InitScan /\ [][NextScan]_vars

InitMap ==
    /\ wrappers = <<>>
    /\ NameMapper = DefaultNameMapper
    /\ origMapper = DefaultNameMapper
    /\ mpr = NoMapper
    /\ mappers = <<>>
    /\ werr = "nil"
    /\ data = NoData
    /\ cur = NoCursor
    /\ din = NoDest
    /\ dst = NoDest
    /\ res = "nil"
    /\ op = "none"
    /\ scans = <<>>
    /\ mItem \in MapItems
    /\ mOpts \in MapOptionsSet
    /\ mOut = NoOut
    /\ ins = NoInsert
    /\ mprMu = 0
    /\ pc = [p \in Callers |-> "idle"]
    /\ got = [p \in Callers |-> NoMapper]
    /\ fresh = [p \in Callers |-> FALSE]
    /\ builds = 0
    /\ col = [p \in Callers |-> NoCol]
    /\ changed = FALSE

SpecMap == InitMap /\ [][NextMap]_vars

InitInsert ==
    /\ wrappers = <<>>
    /\ NameMapper = DefaultNameMapper
    /\ origMapper = DefaultNameMapper
    /\ mpr = NoMapper
    /\ mappers = <<>>
    /\ werr = "nil"
    /\ data = NoData
    /\ cur = NoCursor
    /\ din = NoDest
    /\ dst = NoDest
    /\ res = "nil"
    /\ op = "none"
    /\ scans = <<>>
    /\ mItem \in InsertItems
    /\ mOpts = NilMapOptions
    /\ mOut = NoOut
    /\ ins = NoInsert
    /\ mprMu = 0
    /\ pc = [p \in Callers |-> "idle"]
    /\ got = [p \in Callers |-> NoMapper]
    /\ fresh = [p \in Callers |-> FALSE]
    /\ builds = 0
    /\ col = [p \in Callers |-> NoCol]
    /\ changed = FALSE

SpecInsert == InitInsert /\ [][NextInsert]_vars
====
